---- MODULE Spec2Model ----
(***************************************************************************)
(* A model of predai.py: the Resampler (Prophet.process_dataset), the      *)
(* HistoryStore (Database), SeriesArithmetic (subtract_set), the           *)
(* ForecastPostProcessor (Prophet.save_prediction) and the loop of main    *)
(* that runs them for each sensor.                                         *)
(*                                                                         *)
(* Instants are integers counting seconds from an arbitrary origin: a      *)
(* minute is 60 of them, a day 86400.  Sensor values (floats in the        *)
(* program) are integers; where the program rounds to two decimals they    *)
(* count thousandths.  A value that may be absent is a record with a flag. *)
(***************************************************************************)
EXTENDS Integers, Sequences, FiniteSets, TLC

(***************************************************************************)
(* Bounds of the model.                                                    *)
(***************************************************************************)
\* the longest raw history handed to process_dataset
MaxLen == 3

\* the number of get_history calls (fetch, resample, merge) of one run
MaxCalls == 2

\* the longest series handed to store_history or subtract_set as such
MaxRows == 2

\* the longest forecast handed to save_prediction
MaxPoints == 3

\* the number of passes of main's "while True" that are followed
MaxCycles == 2

(***************************************************************************)
(* The state.  Each name is the program's own name for the object.         *)
(***************************************************************************)
VARIABLES
    \* ---- main: what the stages hand to each other ----
    dataset,         \* the series: process_dataset builds it, subtract_set reads it
    incrementing,    \* counter mode
    \* ---- main: the loop of lines 294-345 ----
    config,          \* config["sensors"]: a sequence of sensor records
    cycle,           \* the number of passes of "while True" begun
    sensor_idx,      \* how many sensors of the pass the for loop has taken
    main_pc,         \* position in main
    role,            \* which get_history call is under way: line 323 or line 327
    held,            \* main's dataset (line 323) while the subtract data is fetched
    \* ---- HAInterface.api_call ----
    in_flight,       \* the number of requests sent whose response is awaited
    \* ---- Prophet.process_dataset ----
    new_data,        \* the raw observations (HA history), a sequence
    start,           \* the caller's start (line 278), passed as start_time
    end_time,        \* the end of the window
    period,          \* Prophet.period, minutes
    pd_pc,           \* position in process_dataset
    timenow,         \* the grid time
    data_index,      \* the raw cursor (0-based, as in the code)
    value,           \* the value of the observation under the cursor
    last_value,      \* the value at the last emitted grid point
    start_time,      \* the local start_time, reassigned at line 123
    pd_exc,          \* the exception process_dataset raised, or "none"
    \* ---- Database and the part of get_history that uses it ----
    disk,            \* the committed database: table name -> set of rows
    txn,             \* rows INSERTed on the open connection, not yet committed
    sensor_name,     \* get_history's sensor_name, a sequence of characters
    table_name,      \* the name of the table in use
    history,         \* store_history's history: the new series, [ds, y]
    prev,            \* store_history's prev, a DataFrame of [ds (text), y]
    prev_values,     \* the list of prev's ds taken at lines 260-261
    hist_index,      \* how many rows of history the loop of line 263 has done
    added_rows,      \* store_history's added_rows
    printed,         \* the row counts printed at line 271, one per merge
    db_pc,           \* position in get_history / store_history
    db_exc,          \* the exception raised, or "none"
    calls,           \* the number of merges begun
    used_by,         \* log: <<table, sensor>> when a sensor's get_history loaded
                     \* rows from the table or added rows to it
    \* ---- subtract_set ----
    subset,          \* the subtrahend series
    pruned,          \* the result being built
    count,           \* the number of rows that found a match
    sub_index,       \* how many rows of dataset the loop of line 203 has done
    sub_pc,          \* position in subtract_set
    \* ---- Prophet.save_prediction ----
    pred,            \* self.forecast: a sequence of [ds, yhat1, y]
    now,             \* main's now
    reset_daily,     \* the sensor's reset_daily
    total,           \* the running total of predicted values
    total_org,       \* the running total of observed values
    timeseries,      \* the "results" map: time text -> rounded value
    timeseries_org,  \* the "source" map
    pred_value,      \* save_prediction's value: yhat1 of the last row read
    pred_index,      \* how many rows of pred the loop of line 161 has done
    sp_pc,           \* position in save_prediction
    published        \* the data POSTed at line 195

main_vars == <<dataset, incrementing>>

loop_vars == <<config, cycle, sensor_idx, main_pc, role, held>>

ha_vars == <<in_flight>>

pd_vars == <<new_data, start, end_time, period, pd_pc, timenow, data_index,
             value, last_value, start_time, pd_exc>>

db_vars == <<disk, txn, sensor_name, table_name, history, prev, prev_values,
             hist_index, added_rows, printed, db_pc, db_exc, calls, used_by>>

sub_vars == <<subset, pruned, count, sub_index, sub_pc>>

sp_vars == <<pred, now, reset_daily, total, total_org, timeseries,
             timeseries_org, pred_value, pred_index, sp_pc, published>>

vars == <<main_vars, loop_vars, ha_vars, pd_vars, db_vars, sub_vars, sp_vars>>

(***************************************************************************)
(* timestr_to_datetime and float()                                         *)
(***************************************************************************)
\* a resample that forgets to drop the seconds
TruncMinuteKeepSeconds(t) == t

\* datetime.replace(second=0, microsecond=0)
TruncMinute(t) == t - (t % 60)

\* the None datetime
None == [some |-> FALSE, t |-> 0]

\* A raw last_updated string is [ok |-> whether either HA format parses it,
\* t |-> the instant it then denotes].  The result is None or that instant
\* with its seconds dropped.
timestr_to_datetime(timestamp) ==
    IF timestamp.ok
    THEN [some |-> TRUE, t |-> TruncMinute(timestamp.t)]
    ELSE None

\* A raw state string is [ok |-> whether float() accepts it, num |-> the
\* number it then yields]; "unavailable" and "unknown" are not ok.
Unavailable == [ok |-> FALSE, num |-> 0]

NumState(n) == [ok |-> TRUE, num |-> n]

BadTime == [ok |-> FALSE, t |-> 0]

TimeStr(t) == [ok |-> TRUE, t |-> t]

\* value = float(state), except ValueError: value = last_value
ParsedOrLast(state, last) == IF state.ok THEN state.num ELSE last

\* the delta taken as it is, with no floor at the second argument
MaxFirst(a, b) == a

\* max(a, b), lines 131 and 214
Max(a, b) == IF a >= b THEN a ELSE b

\* real_value: the value itself, or the non-negative delta in counter mode
RealValue(v, last, inc) == IF inc THEN Max(v - last, 0) ELSE v

\* line 134 left out: the grid time stays
NextGridTimeStuck(t, p) == t

\* timenow + timedelta(minutes=self.period)
NextGridTime(t, p) == t + p * 60

(***************************************************************************)
(* The inputs of process_dataset                                           *)
(***************************************************************************)
StateValues == {1, 2}

RawStates == {Unavailable} \cup {NumState(n) : n \in StateValues}

RawTimes == {BadTime} \cup {TimeStr(t) : t \in {0, 80, 200}}

RawObservations == [state : RawStates, last_updated : RawTimes]

SeqsUpTo(S, n) == UNION {[1..k -> S] : k \in 0..n}

StartTimes == {0, 30, 120}

EndTimes == {120, 240}

Periods == {1, 2}

\* HA returns the history of one entity in the order of last_updated: the
\* timestamps that parse are strictly increasing
Ordered(h) ==
    \A i \in 1..Len(h) : \A j \in (i + 1)..Len(h) :
        (h[i].last_updated.ok /\ h[j].last_updated.ok)
            => h[i].last_updated.t < h[j].last_updated.t

\* process_dataset not in use: its own variables
PdIdleLocals ==
    /\ new_data = <<>>
    /\ start = 0
    /\ end_time = 0
    /\ period = 1
    /\ pd_pc = "idle"
    /\ timenow = 0
    /\ data_index = 0
    /\ value = 0
    /\ last_value = 0
    /\ start_time = None
    /\ pd_exc = "none"

\* process_dataset not in use, and no series at hand
PdIdle ==
    /\ PdIdleLocals
    /\ incrementing = FALSE
    /\ dataset = <<>>

\* the state at the call of process_dataset, but for new_data
PdCall ==
    /\ start \in StartTimes
    /\ end_time \in EndTimes
    /\ period \in Periods
    /\ incrementing \in BOOLEAN
    /\ pd_pc = "entry"
    /\ timenow = 0
    /\ data_index = 0
    /\ value = 0
    /\ last_value = 0
    /\ start_time = [some |-> TRUE, t |-> start]
    /\ dataset = <<>>
    /\ pd_exc = "none"

\* a history as HA returns it
PdInit ==
    /\ new_data \in {h \in SeqsUpTo(RawObservations, MaxLen) : Ordered(h)}
    /\ PdCall

\* any sequence of raw observations, in any order
PdInitAny ==
    /\ new_data \in SeqsUpTo(RawObservations, MaxLen)
    /\ PdCall

\* observations for following the walk alone: what an observation's state
\* is matters to it only at line 113
WalkObservations == [state : {Unavailable, NumState(1)}, last_updated : RawTimes]

\* any sequence of them, in any order
PdInitWalk ==
    /\ new_data \in SeqsUpTo(WalkObservations, MaxLen)
    /\ PdCall

(***************************************************************************)
(* Prophet.process_dataset                                                 *)
(***************************************************************************)
\* lines 105-114 when line 113 does not raise
PdEntry ==
    /\ pd_pc = "entry"
    /\ incrementing => (Len(new_data) > 0 /\ new_data[1].state.ok)
    /\ timenow' = TruncMinute(start)
    /\ data_index' = 0
    /\ value' = 0
    /\ last_value' = IF incrementing THEN new_data[1].state.num ELSE 0
    /\ pd_pc' = "loop"
    /\ UNCHANGED <<loop_vars, ha_vars, db_vars, sub_vars, sp_vars>>
    /\ UNCHANGED <<new_data, start, end_time, period, incrementing, start_time,
                   dataset, pd_exc>>

\* line 113 on an empty history: new_data[0] raises IndexError
PdEntryIndexError ==
    /\ pd_pc = "entry"
    /\ incrementing
    /\ Len(new_data) = 0
    /\ pd_exc' = "IndexError"
    /\ pd_pc' = "raised"
    /\ UNCHANGED <<loop_vars, ha_vars, db_vars, sub_vars, sp_vars>>
    /\ UNCHANGED <<new_data, start, end_time, period, incrementing, timenow,
                   data_index, value, last_value, start_time, dataset>>

\* line 113 on a first state that is no number: float() raises ValueError,
\* outside any try
PdEntryValueError ==
    /\ pd_pc = "entry"
    /\ incrementing
    /\ Len(new_data) > 0
    /\ ~new_data[1].state.ok
    /\ pd_exc' = "ValueError"
    /\ pd_pc' = "raised"
    /\ UNCHANGED <<loop_vars, ha_vars, db_vars, sub_vars, sp_vars>>
    /\ UNCHANGED <<new_data, start, end_time, period, incrementing, timenow,
                   data_index, value, last_value, start_time, dataset>>

\* the loop condition of line 116
PdLoopCond == timenow < end_time /\ data_index < Len(new_data)

\* the observation under the cursor
PdObs == new_data[data_index + 1]

\* lines 125-127: the observation is before the grid time, or has no time
PdSkip ==
    /\ pd_pc = "loop"
    /\ PdLoopCond
    /\ LET st == timestr_to_datetime(PdObs.last_updated)
       IN  /\ ~st.some \/ st.t < timenow
           /\ start_time' = st
    /\ value' = ParsedOrLast(PdObs.state, last_value)
    /\ data_index' = data_index + 1
    /\ UNCHANGED <<loop_vars, ha_vars, db_vars, sub_vars, sp_vars>>
    /\ UNCHANGED <<new_data, start, end_time, period, incrementing, pd_pc,
                   timenow, last_value, dataset, pd_exc>>

\* lines 129-134: a sample at the grid time, from the observation under the
\* cursor; the cursor stays
PdEmit ==
    /\ pd_pc = "loop"
    /\ PdLoopCond
    /\ LET st == timestr_to_datetime(PdObs.last_updated)
       IN  /\ st.some /\ st.t >= timenow
           /\ start_time' = st
    /\ LET v == ParsedOrLast(PdObs.state, last_value)
       IN  /\ value' = v
           /\ dataset' = Append(dataset,
                  [ds |-> timenow, y |-> RealValue(v, last_value, incrementing)])
           /\ last_value' = v
    /\ timenow' = NextGridTime(timenow, period)
    /\ UNCHANGED <<loop_vars, ha_vars, db_vars, sub_vars, sp_vars>>
    /\ UNCHANGED <<new_data, start, end_time, period, incrementing, pd_pc,
                   data_index, pd_exc>>

\* line 137
PdReturn ==
    /\ pd_pc = "loop"
    /\ ~PdLoopCond
    /\ pd_pc' = "done"
    /\ UNCHANGED <<loop_vars, ha_vars, db_vars, sub_vars, sp_vars>>
    /\ UNCHANGED <<new_data, start, end_time, period, incrementing, timenow,
                   data_index, value, last_value, start_time, dataset, pd_exc>>


(***************************************************************************)
(* The HistoryStore: class Database over sqlite3, and the part of the      *)
(* module-level get_history that uses it (lines 280-286).                  *)
(***************************************************************************)
\* str(row["ds"]) of a minute-aligned instant, as the fixed-width digits
\* of its minutes and seconds: a text, compared as text
TimestampText(t) ==
    <<(t \div 60) \div 10, (t \div 60) % 10, (t % 60) \div 10, (t % 60) % 10>>

\* the order of two TEXT values of equal width (ORDER BY timestamp)
TextLess(a, b) ==
    \E i \in 1..Len(a) : a[i] < b[i] /\ \A j \in 1..(i - 1) : a[j] = b[j]

\* sensor_name.replace(".", "_")
Sanitize(name) == [i \in 1..Len(name) |-> IF name[i] = "." THEN "_" ELSE name[i]]

\* the rows a SELECT or an INSERT on the connection sees in table_name
VisibleRows == disk[table_name] \cup txn

\* the PRIMARY KEY of line 231: a timestamp already in the table
KeyExists(timestamp) == \E r \in VisibleRows : r.timestamp = timestamp

RECURSIVE RowsInOrder(_)
\* the rows of a table as ORDER BY timestamp returns them
RowsInOrder(rows) ==
    IF rows = {} THEN <<>>
    ELSE LET first == CHOOSE r \in rows :
                          \A q \in rows : q = r \/ TextLess(r.timestamp, q.timestamp)
         IN  <<first>> \o RowsInOrder(rows \ {first})

\* Database.get_history(table): the DataFrame of the table's rows
DbGetHistory(rows) ==
    LET ordered == RowsInOrder(rows)
    IN  [k \in 1..Len(ordered) |->
            [ds |-> ordered[k].timestamp, y |-> ordered[k].value]]

\* prev["ds"].values.tolist()
DsList(frame) == [k \in 1..Len(frame) |-> frame[k].ds]

InList(x, list) == \E k \in 1..Len(list) : list[k] = x

\* CREATE TABLE without IF NOT EXISTS on a dropped table: the table is made
\* anew, empty
CreateAnew(tables, table) == (table :> {}) @@ tables

\* line 231: CREATE TABLE IF NOT EXISTS
CreateIfNotExists(tables, table) ==
    IF table \in DOMAIN tables THEN tables ELSE tables @@ (table :> {})

\* the log of which sensor's rows a table has given or taken
Used(log, table, sensor, any) ==
    IF any THEN log \cup {<<table, sensor>>} ELSE log

\* line 266 taken as always true: every row is written
ShouldStoreAlways(timestamp, known) == TRUE

\* line 266 comparing only the leading character of the texts
ShouldStoreByPrefix(timestamp, known) ==
    ~\E k \in 1..Len(known) : known[k][1] = timestamp[1]

\* line 266: timestamp not in prev_values
ShouldStore(timestamp, known) == ~InList(timestamp, known)

(***************************************************************************)
(* The inputs                                                              *)
(***************************************************************************)
SensorNames == {<<"a", ".", "b">>, <<"a", "_", "b">>, <<"c", ".", "d">>}

TableNames == {Sanitize(n) : n \in SensorNames}

\* the grid instants a sample may carry
GridTimes == {0, 60, 120}

SampleValues == {1, 2}

Samples == [ds : GridTimes, y : SampleValues]

\* a Resampler output: ds strictly increasing
Increasing(s) == \A k \in 1..(Len(s) - 1) : s[k].ds < s[k + 1].ds

ResampledSeries == {s \in SeqsUpTo(Samples, Cardinality(GridTimes)) : Increasing(s)}

TableRows == [timestamp : {TimestampText(t) : t \in GridTimes}, value : SampleValues]

\* contents a table can have: at most one row per timestamp
TableContents ==
    {rows \in SUBSET TableRows :
        \A r \in rows : \A q \in rows : r.timestamp = q.timestamp => r = q}

\* the instants of the series handed to store_history as such
MergeTimes == {0, 60}

MergeSamples == [ds : MergeTimes, y : SampleValues]

TextSamples == [ds : {TimestampText(t) : t \in MergeTimes}, y : SampleValues]

MergeContents ==
    {rows \in TableContents : \A r \in rows : r.timestamp # TimestampText(120)}

\* a fresh database file and no call of get_history yet
DbInit ==
    /\ disk = <<>>
    /\ txn = {}
    /\ sensor_name = <<>>
    /\ table_name = <<>>
    /\ history = <<>>
    /\ prev = <<>>
    /\ prev_values = <<>>
    /\ hist_index = 0
    /\ added_rows = 0
    /\ printed = <<>>
    /\ db_pc = "idle"
    /\ db_exc = "none"
    /\ calls = 0
    /\ used_by = {}

\* store_history called as such: any stored content of one table, any new
\* series, any prev
MergeInit ==
    /\ sensor_name = <<"a", ".", "b">>
    /\ table_name = Sanitize(sensor_name)
    /\ \E rows \in MergeContents : disk = (table_name :> rows)
    /\ txn = {}
    /\ history \in SeqsUpTo(MergeSamples, MaxRows)
    /\ prev \in SeqsUpTo(TextSamples, MaxRows)
    /\ prev_values = <<>>
    /\ hist_index = 0
    /\ added_rows = 0
    /\ printed = <<>>
    /\ db_pc = "store"
    /\ db_exc = "none"
    /\ calls = 1
    /\ used_by = {}

(***************************************************************************)
(* get_history, lines 280-286                                              *)
(***************************************************************************)
\* lines 279-282: the resampled dataset is at hand, the table is named
GhUseDb ==
    /\ db_pc = "idle"
    /\ calls < MaxCalls
    /\ calls' = calls + 1
    /\ sensor_name' \in SensorNames
    /\ table_name' = Sanitize(sensor_name')
    /\ history' \in ResampledSeries
    /\ db_pc' = "create"
    /\ UNCHANGED <<main_vars, loop_vars, ha_vars, pd_vars, sub_vars, sp_vars>>
    /\ UNCHANGED used_by
    /\ UNCHANGED <<disk, txn, prev, prev_values, hist_index, added_rows,
                   printed, db_exc>>

\* Database.create_table: CREATE TABLE IF NOT EXISTS, commit
CreateTable ==
    /\ db_pc = "create"
    /\ disk' = CreateIfNotExists(disk, table_name)
    /\ db_pc' = "load"
    /\ UNCHANGED <<main_vars, loop_vars, ha_vars, pd_vars, sub_vars, sp_vars>>
    /\ UNCHANGED used_by
    /\ UNCHANGED <<txn, sensor_name, table_name, history, prev, prev_values,
                   hist_index, added_rows, printed, db_exc, calls>>

\* line 284: prev = await db.get_history(table_name)
GhLoad ==
    /\ db_pc = "load"
    /\ prev' = DbGetHistory(VisibleRows)
    /\ used_by' = Used(used_by, table_name, sensor_name, VisibleRows # {})
    /\ db_pc' = "store"
    /\ UNCHANGED <<main_vars, loop_vars, ha_vars, pd_vars, sub_vars, sp_vars>>
    /\ UNCHANGED <<disk, txn, sensor_name, table_name, history, prev_values,
                   hist_index, added_rows, printed, db_exc, calls>>

(***************************************************************************)
(* Database.store_history                                                  *)
(***************************************************************************)
\* lines 259-261
StoreEntry ==
    /\ db_pc = "store"
    /\ added_rows' = 0
    /\ prev_values' = DsList(prev)
    /\ hist_index' = 0
    /\ db_pc' = "rows"
    /\ UNCHANGED <<main_vars, loop_vars, ha_vars, pd_vars, sub_vars, sp_vars>>
    /\ UNCHANGED used_by
    /\ UNCHANGED <<disk, txn, sensor_name, table_name, history, prev, printed,
                   db_exc, calls>>

\* lines 263-269, one row of history: skipped when its timestamp is in
\* prev_values; else appended to prev and INSERTed, which raises
\* sqlite3.IntegrityError when the table has a row of that timestamp.  No
\* caller handles the exception: it leaves store_history before the commit of
\* line 270, the process ends and the uncommitted rows are rolled back.
StoreRow ==
    /\ db_pc = "rows"
    /\ hist_index < Len(history)
    /\ LET row == history[hist_index + 1]
           timestamp == TimestampText(row.ds)
       IN  IF ~ShouldStore(timestamp, prev_values)
           THEN /\ hist_index' = hist_index + 1
                /\ UNCHANGED <<prev, txn, added_rows, db_pc, db_exc>>
           ELSE IF KeyExists(timestamp)
           THEN /\ prev' = Append(prev, [ds |-> timestamp, y |-> row.y])
                /\ db_exc' = "IntegrityError"
                /\ db_pc' = "raised"
                /\ txn' = {}
                /\ UNCHANGED <<hist_index, added_rows>>
           ELSE /\ prev' = Append(prev, [ds |-> timestamp, y |-> row.y])
                /\ txn' = txn \cup {[timestamp |-> timestamp, value |-> row.y]}
                /\ added_rows' = added_rows + 1
                /\ hist_index' = hist_index + 1
                /\ UNCHANGED <<db_pc, db_exc>>
    /\ UNCHANGED <<main_vars, loop_vars, ha_vars, pd_vars, sub_vars, sp_vars>>
    /\ UNCHANGED used_by
    /\ UNCHANGED <<disk, sensor_name, table_name, history, prev_values, printed,
                   calls>>

\* lines 270-272: commit, print the count, return prev
StoreCommit ==
    /\ db_pc = "rows"
    /\ hist_index = Len(history)
    /\ disk' = [disk EXCEPT ![table_name] = @ \cup txn]
    /\ txn' = {}
    /\ printed' = Append(printed, added_rows)
    /\ used_by' = Used(used_by, table_name, sensor_name, added_rows > 0)
    /\ db_pc' = "merged"
    /\ UNCHANGED <<main_vars, loop_vars, ha_vars, pd_vars, sub_vars, sp_vars>>
    /\ UNCHANGED <<sensor_name, table_name, history, prev, prev_values,
                   hist_index, added_rows, db_exc, calls>>

\* lines 285-287: the merged series is get_history's dataset; the next call
\* may follow
GhReturn ==
    /\ db_pc = "merged"
    /\ db_pc' = "idle"
    /\ UNCHANGED <<main_vars, loop_vars, ha_vars, pd_vars, sub_vars, sp_vars>>
    /\ UNCHANGED used_by
    /\ UNCHANGED <<disk, txn, sensor_name, table_name, history, prev,
                   prev_values, hist_index, added_rows, printed, db_exc, calls>>

\* store_history called again with the same history and the prev it returned
StoreAgain ==
    /\ db_pc = "merged"
    /\ calls < MaxCalls
    /\ calls' = calls + 1
    /\ db_pc' = "store"
    /\ UNCHANGED <<main_vars, loop_vars, ha_vars, pd_vars, sub_vars, sp_vars>>
    /\ UNCHANGED used_by
    /\ UNCHANGED <<disk, txn, sensor_name, table_name, history, prev,
                   prev_values, hist_index, added_rows, printed, db_exc>>

(***************************************************************************)
(* The process dying during a merge                                        *)
(***************************************************************************)
\* a crash that leaves the rows INSERTed so far half written, their value lost
DurableTorn(tables, table, pending) ==
    [tables EXCEPT ![table] =
        @ \cup {[timestamp |-> r.timestamp, value |-> 0] : r \in pending}]

\* what the database file holds once the process is gone: the committed rows.
\* The INSERTs of line 268 run in the transaction sqlite3 opened for them,
\* which only line 270 commits; the file's journal rolls them back.
Durable(tables, table, pending) == tables

\* the process dies inside store_history: between two rows, before the commit
\* of line 270, or after it
Crash ==
    /\ db_pc \in {"rows", "merged"}
    /\ disk' = Durable(disk, table_name, txn)
    /\ txn' = {}
    /\ db_pc' = "crashed"
    /\ UNCHANGED <<main_vars, loop_vars, ha_vars, pd_vars, sub_vars, sp_vars>>
    /\ UNCHANGED <<sensor_name, table_name, history, prev, prev_values,
                   hist_index, added_rows, printed, db_exc, calls, used_by>>

\* the program is started again: main runs from line 289 and the next
\* get_history opens the file anew (lines 222-224)
Restart ==
    /\ db_pc = "crashed"
    /\ db_pc' = "idle"
    /\ UNCHANGED <<main_vars, loop_vars, ha_vars, pd_vars, sub_vars, sp_vars>>
    /\ UNCHANGED <<disk, txn, sensor_name, table_name, history, prev,
                   prev_values, hist_index, added_rows, printed, db_exc, calls,
                   used_by>>

(***************************************************************************)
(* SeriesArithmetic: subtract_set                                          *)
(***************************************************************************)
\* the positions of subset whose ds equals ds: subset.loc[subset["ds"] == ds]
CarRow(sub, ds) == {j \in 1..Len(sub) : sub[j].ds = ds}

\* alignment by position in place of ds: the first row of subset, whatever
\* its ds
CarValueFirstRow(sub, ds) ==
    IF Len(sub) = 0 THEN 0 ELSE sub[1].y

\* lines 206-210: car_row["y"].values[0], the y of the first match, else 0
CarValue(sub, ds) ==
    IF CarRow(sub, ds) = {}
    THEN 0
    ELSE sub[CHOOSE j \in CarRow(sub, ds) : \A i \in CarRow(sub, ds) : j <= i].y

\* lines 213-216
Difference(v, car_value, inc) ==
    IF inc THEN Max(v - car_value, 0) ELSE v - car_value

\* a series with no ds twice, as the Resampler and the merge return them
DistinctDs(s) == \A i \in 1..Len(s) : \A j \in 1..Len(s) : s[i].ds = s[j].ds => i = j

SeriesOfDistinctDs == {s \in SeqsUpTo(Samples, MaxRows) : DistinctDs(s)}

\* subtract_set not in use
SubIdle ==
    /\ subset = <<>>
    /\ pruned = <<>>
    /\ count = 0
    /\ sub_index = 0
    /\ sub_pc = "idle"

\* lines 201-202, on any two series
SubCall ==
    /\ dataset \in SeriesOfDistinctDs
    /\ subset \in SeriesOfDistinctDs
    /\ incrementing \in BOOLEAN
    /\ pruned = <<>>
    /\ count = 0
    /\ sub_index = 0
    /\ sub_pc = "rows"

\* lines 203-217, one row of dataset
SubRow ==
    /\ sub_pc = "rows"
    /\ sub_index < Len(dataset)
    /\ LET row == dataset[sub_index + 1]
       IN  /\ count' = IF CarRow(subset, row.ds) = {} THEN count ELSE count + 1
           /\ pruned' = Append(pruned,
                  [ds |-> row.ds,
                   y  |-> Difference(row.y, CarValue(subset, row.ds), incrementing)])
    /\ sub_index' = sub_index + 1
    /\ UNCHANGED <<main_vars, loop_vars, ha_vars, pd_vars, db_vars, sp_vars>>
    /\ UNCHANGED <<subset, sub_pc>>

\* lines 218-219
SubReturn ==
    /\ sub_pc = "rows"
    /\ sub_index = Len(dataset)
    /\ sub_pc' = "done"
    /\ UNCHANGED <<main_vars, loop_vars, ha_vars, pd_vars, db_vars, sp_vars>>
    /\ UNCHANGED <<subset, pruned, count, sub_index>>

(***************************************************************************)
(* The ForecastPostProcessor: Prophet.save_prediction                      *)
(***************************************************************************)
\* timestamp.hour and timestamp.minute
Hour(t) == (t \div 3600) % 24

Minute(t) == (t \div 60) % 60

\* timestamp.strftime(TIME_FORMAT_HA): date, hour, minute, second
StrfTime(t) == <<t \div 86400, Hour(t), Minute(t), t % 60>>

\* round(x, 2) of a number counted in thousandths (no input of the model
\* lies half way between two hundredths)
Round2(x) == 10 * ((x + 5) \div 10)

\* the reset applied to future points as well
DailyResetAnyTime(timestamp, t_now, reset) ==
    reset /\ Hour(timestamp) = 0 /\ Minute(timestamp) = 0

\* the reset applied only strictly before now
DailyResetBeforeNow(timestamp, t_now, reset) ==
    timestamp < t_now /\ reset /\ Hour(timestamp) = 0 /\ Minute(timestamp) = 0

\* lines 172-173
DailyReset(timestamp, t_now, reset) ==
    timestamp <= t_now /\ reset /\ Hour(timestamp) = 0 /\ Minute(timestamp) = 0

\* a float that may be NaN: the observed y of a forecast row
NaN == [nan |-> TRUE, num |-> 0]

Observed(n) == [nan |-> FALSE, num |-> n]

\* what the forecasting engine returns: rows on a regular grid of ds
PredValues == {-6, 4, 12}

ObservedValues == {NaN, Observed(0), Observed(12)}

PredFirsts == {0, 43200}

PredSteps == {43200, 86400}

Forecasts ==
    {[k \in 1..n |-> [ds |-> first + (k - 1) * step, yhat1 |-> f[k].yhat1, y |-> f[k].y]] :
        n \in 1..MaxPoints, first \in PredFirsts, step \in PredSteps,
        f \in [1..MaxPoints -> [yhat1 : PredValues, y : ObservedValues]]}

\* main's now: the current hour
NowTimes == {0, 86400}

\* the POST body before anything is published
Nothing == [state |-> 0, results |-> <<>>, source |-> <<>>, sent |-> FALSE]

\* save_prediction not in use
SpIdle ==
    /\ pred = <<>>
    /\ now = 0
    /\ reset_daily = FALSE
    /\ total = 0
    /\ total_org = 0
    /\ timeseries = <<>>
    /\ timeseries_org = <<>>
    /\ pred_value = 0
    /\ pred_index = 0
    /\ sp_pc = "idle"
    /\ published = Nothing

\* lines 155-159, on any forecast
SpCall ==
    /\ pred \in Forecasts
    /\ now \in NowTimes
    /\ reset_daily \in BOOLEAN
    /\ incrementing \in BOOLEAN
    /\ total = 0
    /\ total_org = 0
    /\ timeseries = <<>>
    /\ timeseries_org = <<>>
    /\ pred_value = 0
    /\ pred_index = 0
    /\ sp_pc = "rows"
    /\ published = Nothing

\* dict[key] = v
Put(map, key, v) == (key :> v) @@ map

\* lines 161-190, one row of the forecast.  timestamp = now + (ds - now) is
\* the row's ds.  value_org is dropped from the observed map when it is NaN
\* and when it is 0 (line 185: "if value_org").
SpRow ==
    /\ sp_pc = "rows"
    /\ pred_index < Len(pred)
    /\ LET row == pred[pred_index + 1]
           timestamp == now + (row.ds - now)
           time == StrfTime(timestamp)
           reset == DailyReset(timestamp, now, reset_daily)
           new_total == (IF reset THEN 0 ELSE total) + row.yhat1
           new_org == (IF reset THEN 0 ELSE total_org)
                          + (IF row.y.nan THEN 0 ELSE row.y.num)
           truthy == ~row.y.nan /\ row.y.num # 0
       IN  /\ total' = new_total
           /\ total_org' = new_org
           /\ pred_value' = row.yhat1
           /\ timeseries' = Put(timeseries, time,
                  IF incrementing THEN Round2(new_total) ELSE Round2(row.yhat1))
           /\ timeseries_org' =
                  IF truthy
                  THEN Put(timeseries_org, time,
                           IF incrementing THEN Round2(new_org) ELSE Round2(row.y.num))
                  ELSE timeseries_org
    /\ pred_index' = pred_index + 1
    /\ UNCHANGED <<dataset, loop_vars, ha_vars, pd_vars, db_vars, sub_vars>>
    /\ UNCHANGED <<incrementing, pred, now, reset_daily, sp_pc, published>>

\* line 192 always taking the running total
FinalValueTotal(inc, sum, last) == sum

\* line 192: final = total if incrementing else value
FinalValue(inc, sum, last) == IF inc THEN sum ELSE last

\* lines 192-195: the final value, and the POST is sent (api_call, line 77)
SpPublish ==
    /\ sp_pc = "rows"
    /\ pred_index = Len(pred)
    /\ published' = [state   |-> Round2(FinalValue(incrementing, total, pred_value)),
                     results |-> timeseries,
                     source  |-> timeseries_org,
                     sent    |-> TRUE]
    /\ in_flight' = in_flight + 1
    /\ sp_pc' = "posting"
    /\ UNCHANGED <<dataset, loop_vars, pd_vars, db_vars, sub_vars>>
    /\ UNCHANGED <<incrementing, pred, now, reset_daily, total, total_org,
                   timeseries, timeseries_org, pred_value, pred_index>>

\* line 195: the awaited api_call returns (lines 85-94); its result is not
\* looked at
SpPosted ==
    /\ sp_pc = "posting"
    /\ in_flight' = in_flight - 1
    /\ sp_pc' = "done"
    /\ UNCHANGED <<dataset, loop_vars, pd_vars, db_vars, sub_vars>>
    /\ UNCHANGED <<incrementing, pred, now, reset_daily, total, total_org,
                   timeseries, timeseries_org, pred_value, pred_index, published>>

(***************************************************************************)
(* main: the loop over the cycles and the sensors, and get_history's call  *)
(* of the hub (HAInterface.get_history)                                    *)
(***************************************************************************)
\* main not running
LoopIdle ==
    /\ config = <<>>
    /\ cycle = 0
    /\ sensor_idx = 0
    /\ main_pc = "idle"
    /\ role = "data"
    /\ held = <<>>

\* no request to the hub awaits its response
HaIdle == in_flight = 0

\* sensor.get("name", None) or sensor.get("subtract", None) of an entry
\* without the key
NoName == <<>>

\* one entry of config["sensors"], lines 303-311 (days, units and
\* future_periods do not reach the model)
Sensor(name, subtract, inc, reset, interval, use_db) ==
    [name |-> name, subtract |-> subtract, incrementing |-> inc,
     reset_daily |-> reset, interval |-> interval, database |-> use_db]

Dotted(a, b) == <<a, ".", b>>

\* the configurations followed: a counter with a subtrahend and the database,
\* an entry without a name, plain sensors, two names that differ in "." / "_"
Configs ==
    {<<Sensor(Dotted("a", "b"), Dotted("c", "d"), TRUE, TRUE, 1, TRUE),
       Sensor(Dotted("c", "d"), NoName, FALSE, FALSE, 1, FALSE)>>,
     <<Sensor(NoName, NoName, FALSE, FALSE, 1, FALSE),
       Sensor(Dotted("c", "d"), Dotted("a", "b"), TRUE, FALSE, 1, FALSE)>>,
     <<Sensor(Dotted("a", "b"), NoName, FALSE, TRUE, 2, TRUE),
       Sensor(<<"a", "_", "b">>, Dotted("c", "d"), FALSE, FALSE, 1, TRUE)>>}

\* main's now (lines 319-320, the current hour) during a cycle
Clock(c) == 3600 * c

\* now - timedelta(days=days), line 49, in the model's seconds
Lookback == 3600

Reading(state, t) == [state |-> state, last_updated |-> TimeStr(t)]

\* what the hub may hold for an entity: nothing, a value that falls and
\* rises again, a value that stays, a first state that is no number, values
\* of the second hour
HubHistories ==
    {<<>>,
     <<Reading(NumState(2), 0), Reading(NumState(1), 80), Reading(NumState(2), 140)>>,
     <<Reading(NumState(1), 0), Reading(NumState(1), 140)>>,
     <<Reading(Unavailable, 0), Reading(NumState(1), 80)>>,
     <<Reading(NumState(1), 3620), Reading(NumState(2), 3680)>>}

\* the history the hub returns for a window that ends at t (line 52)
HubAnswers(t) ==
    {h \in HubHistories : \A i \in 1..Len(h) : h[i].last_updated.t <= t}

\* what the forecasting engine (Prophet.train, lines 143-148) may return
MainForecasts(t) ==
    {<<[ds |-> 0, yhat1 |-> 4, y |-> Observed(12)],
       [ds |-> t + 60, yhat1 |-> -6, y |-> NaN]>>,
     <<[ds |-> t, yhat1 |-> 12, y |-> NaN]>>}

\* the sensor the for loop is at
ThisSensor == config[sensor_idx]

\* the entity whose history the get_history call under way asks for
\* (line 323: sensor_name, line 327: subtract_name)
HistoryOf == IF role = "data" THEN ThisSensor.name ELSE ThisSensor.subtract

\* main at its start, the configuration file on disk
MainInit ==
    /\ config \in Configs
    /\ cycle = 0
    /\ sensor_idx = 0
    /\ main_pc = "config"
    /\ role = "data"
    /\ held = <<>>

\* lines 294-301: a pass of "while True" begins, the configuration is read
MainLoadConfig ==
    /\ main_pc = "config"
    /\ cycle < MaxCycles
    /\ cycle' = cycle + 1
    /\ sensor_idx' = 0
    /\ main_pc' = "sensor"
    /\ UNCHANGED <<main_vars, ha_vars, pd_vars, db_vars, sub_vars, sp_vars>>
    /\ UNCHANGED <<config, role, held>>

\* lines 302-314: the next entry has no name: continue
MainSkipSensor ==
    /\ main_pc = "sensor"
    /\ sensor_idx < Len(config)
    /\ config[sensor_idx + 1].name = NoName
    /\ sensor_idx' = sensor_idx + 1
    /\ UNCHANGED <<main_vars, ha_vars, pd_vars, db_vars, sub_vars, sp_vars>>
    /\ UNCHANGED <<config, cycle, main_pc, role, held>>

\* lines 302-323: the next entry is taken, its options and now are read and
\* get_history is called for its own history
MainStartSensor ==
    /\ main_pc = "sensor"
    /\ sensor_idx < Len(config)
    /\ config[sensor_idx + 1].name # NoName
    /\ sensor_idx' = sensor_idx + 1
    /\ incrementing' = config[sensor_idx + 1].incrementing
    /\ reset_daily' = config[sensor_idx + 1].reset_daily
    /\ period' = config[sensor_idx + 1].interval
    /\ now' = Clock(cycle)
    /\ role' = "data"
    /\ main_pc' = "fetch"
    /\ UNCHANGED <<dataset, ha_vars, db_vars, sub_vars>>
    /\ UNCHANGED <<config, cycle, held>>
    /\ UNCHANGED <<new_data, start, end_time, pd_pc, timenow, data_index,
                   value, last_value, start_time, pd_exc>>
    /\ UNCHANGED <<pred, total, total_org, timeseries, timeseries_org,
                   pred_value, pred_index, sp_pc, published>>

\* lines 344-345: the for loop is over; sleep, then the next pass
MainSleep ==
    /\ main_pc = "sensor"
    /\ sensor_idx = Len(config)
    /\ main_pc' = "config"
    /\ UNCHANGED <<main_vars, ha_vars, pd_vars, db_vars, sub_vars, sp_vars>>
    /\ UNCHANGED <<config, cycle, sensor_idx, role, held>>

\* HAInterface.get_history lines 49-52 and api_call up to line 82: the GET
\* is sent and awaited
HaRequest ==
    /\ main_pc = "fetch"
    /\ in_flight' = in_flight + 1
    /\ main_pc' = "fetching"
    /\ UNCHANGED <<main_vars, pd_vars, db_vars, sub_vars, sp_vars>>
    /\ UNCHANGED <<config, cycle, sensor_idx, role, held>>

\* lines 52-57, then line 279's call of process_dataset (lines 101-104): the
\* response is the entity's history; start is its first timestamp, or
\* now - days when it is empty
HaResponse ==
    /\ main_pc = "fetching"
    /\ in_flight' = in_flight - 1
    /\ \E res \in HubAnswers(now) :
           /\ new_data' = res
           /\ start' = IF Len(res) > 0
                       THEN timestr_to_datetime(res[1].last_updated).t
                       ELSE now - Lookback
    /\ end_time' = now
    /\ start_time' = [some |-> TRUE, t |-> start']
    /\ pd_pc' = "entry"
    /\ timenow' = 0
    /\ data_index' = 0
    /\ value' = 0
    /\ last_value' = 0
    /\ dataset' = <<>>
    /\ pd_exc' = "none"
    /\ main_pc' = "resample"
    /\ UNCHANGED <<incrementing, period, db_vars, sub_vars, sp_vars>>
    /\ UNCHANGED <<config, cycle, sensor_idx, role, held>>

\* lines 280 and 287: no database for this sensor, the resampled series is
\* what get_history returns
GhNoDb ==
    /\ main_pc = "resample"
    /\ pd_pc = "done"
    /\ ~ThisSensor.database
    /\ main_pc' = "returned"
    /\ UNCHANGED <<main_vars, ha_vars, pd_vars, db_vars, sub_vars, sp_vars>>
    /\ UNCHANGED <<config, cycle, sensor_idx, role, held>>

\* lines 280-283: the table of the entity is named, Database() is made
GhUseDbOf ==
    /\ main_pc = "resample"
    /\ pd_pc = "done"
    /\ ThisSensor.database
    /\ sensor_name' = HistoryOf
    /\ table_name' = Sanitize(HistoryOf)
    /\ history' = dataset
    /\ txn' = {}
    /\ db_pc' = "create"
    /\ main_pc' = "merge"
    /\ UNCHANGED <<main_vars, ha_vars, pd_vars, sub_vars, sp_vars>>
    /\ UNCHANGED <<config, cycle, sensor_idx, role, held>>
    /\ UNCHANGED <<disk, prev, prev_values, hist_index, added_rows, printed,
                   db_exc, calls, used_by>>

\* lines 285-287: what store_history returned is get_history's dataset
GhReturnMerged ==
    /\ main_pc = "merge"
    /\ db_pc = "merged"
    /\ dataset' = prev
    /\ db_pc' = "idle"
    /\ main_pc' = "returned"
    /\ UNCHANGED <<incrementing, ha_vars, pd_vars, sub_vars, sp_vars>>
    /\ UNCHANGED <<config, cycle, sensor_idx, role, held>>
    /\ UNCHANGED <<disk, txn, sensor_name, table_name, history, prev,
                   prev_values, hist_index, added_rows, printed, db_exc, calls,
                   used_by>>

\* lines 323-327: the sensor's own series is main's dataset; with a subtract
\* name, get_history is called again for that entity
MainGetSubtract ==
    /\ main_pc = "returned"
    /\ role = "data"
    /\ ThisSensor.subtract # NoName
    /\ held' = dataset
    /\ role' = "subtract"
    /\ main_pc' = "fetch"
    /\ UNCHANGED <<main_vars, ha_vars, pd_vars, db_vars, sub_vars, sp_vars>>
    /\ UNCHANGED <<config, cycle, sensor_idx>>

\* lines 328-329 and 335-336: no subtract name, pruned is the dataset
MainNoSubtract ==
    /\ main_pc = "returned"
    /\ role = "data"
    /\ ThisSensor.subtract = NoName
    /\ held' = dataset
    /\ pruned' = dataset
    /\ main_pc' = "train"
    /\ UNCHANGED <<main_vars, ha_vars, pd_vars, db_vars, sp_vars>>
    /\ UNCHANGED <<config, cycle, sensor_idx, role>>
    /\ UNCHANGED <<subset, count, sub_index, sub_pc>>

\* lines 327 and 332-334: the subtract data is back, subtract_set is called
\* (lines 197-202)
MainSubtract ==
    /\ main_pc = "returned"
    /\ role = "subtract"
    /\ subset' = dataset
    /\ dataset' = held
    /\ pruned' = <<>>
    /\ count' = 0
    /\ sub_index' = 0
    /\ sub_pc' = "rows"
    /\ main_pc' = "subtract"
    /\ UNCHANGED <<incrementing, ha_vars, pd_vars, db_vars, sp_vars>>
    /\ UNCHANGED <<config, cycle, sensor_idx, role, held>>

\* line 334: subtract_set has returned
MainSubtracted ==
    /\ main_pc = "subtract"
    /\ sub_pc = "done"
    /\ main_pc' = "train"
    /\ UNCHANGED <<main_vars, ha_vars, pd_vars, db_vars, sub_vars, sp_vars>>
    /\ UNCHANGED <<config, cycle, sensor_idx, role, held>>

\* lines 339 and 342: the engine is trained and returns its forecast;
\* save_prediction is called (lines 151-159)
MainTrain ==
    /\ main_pc = "train"
    /\ pred' \in MainForecasts(now)
    /\ total' = 0
    /\ total_org' = 0
    /\ timeseries' = <<>>
    /\ timeseries_org' = <<>>
    /\ pred_value' = 0
    /\ pred_index' = 0
    /\ sp_pc' = "rows"
    /\ main_pc' = "publish"
    /\ UNCHANGED <<main_vars, ha_vars, pd_vars, db_vars, sub_vars>>
    /\ UNCHANGED <<config, cycle, sensor_idx, role, held>>
    /\ UNCHANGED <<now, reset_daily, published>>

\* save_prediction returning while its POST is still awaited
SavePredictionPosting == sp_pc \in {"posting", "done"}

\* line 342: the await of save_prediction is over
SavePredictionReturned == sp_pc = "done"

\* line 342 returns and the for loop goes on (line 302).  The locals of the
\* sensor's pipeline are dead, and what it printed and posted has left the
\* process: they are set back to their idle values.
MainPublished ==
    /\ main_pc = "publish"
    /\ SavePredictionReturned
    /\ main_pc' = "sensor"
    /\ role' = "data"
    /\ held' = <<>>
    /\ dataset' = <<>>
    /\ new_data' = <<>>
    /\ start' = 0
    /\ end_time' = 0
    /\ pd_pc' = "idle"
    /\ timenow' = 0
    /\ data_index' = 0
    /\ value' = 0
    /\ last_value' = 0
    /\ start_time' = None
    /\ sensor_name' = <<>>
    /\ table_name' = <<>>
    /\ history' = <<>>
    /\ prev' = <<>>
    /\ prev_values' = <<>>
    /\ hist_index' = 0
    /\ added_rows' = 0
    /\ subset' = <<>>
    /\ pruned' = <<>>
    /\ count' = 0
    /\ sub_index' = 0
    /\ sub_pc' = "idle"
    /\ pred' = <<>>
    /\ total' = 0
    /\ total_org' = 0
    /\ timeseries' = <<>>
    /\ timeseries_org' = <<>>
    /\ pred_value' = 0
    /\ pred_index' = 0
    /\ sp_pc' = "idle"
    /\ printed' = <<>>
    /\ published' = Nothing
    /\ UNCHANGED <<incrementing, period, pd_exc, ha_vars>>
    /\ UNCHANGED <<config, cycle, sensor_idx>>
    /\ UNCHANGED <<disk, txn, db_pc, db_exc, calls, used_by>>
    /\ UNCHANGED <<now, reset_daily>>

\* nothing in main or get_history catches: an exception raised by
\* process_dataset or store_history leaves main, and asyncio.run (line 347)
\* ends the process
MainAbort ==
    /\ main_pc \in {"resample", "merge"}
    /\ pd_pc = "raised" \/ db_pc = "raised"
    /\ main_pc' = "exited"
    /\ UNCHANGED <<main_vars, ha_vars, pd_vars, db_vars, sub_vars, sp_vars>>
    /\ UNCHANGED <<config, cycle, sensor_idx, role, held>>

\* the step of the sensor's pipeline main is at.  Lines 326-334, where the
\* subtract data is got and subtracted, are the subtract step.
Stage ==
    CASE main_pc \in {"fetch", "fetching"} /\ role = "data" -> "fetch"
      [] main_pc = "resample" /\ role = "data" -> "resample"
      [] main_pc \in {"merge", "returned"} /\ role = "data" -> "merge"
      [] main_pc \in {"fetch", "fetching", "resample", "merge", "returned"}
             /\ role = "subtract" -> "subtract"
      [] main_pc = "subtract" -> "subtract"
      [] main_pc = "train" -> "forecast"
      [] main_pc = "publish" -> "publish"
      [] OTHER -> "none"

(***************************************************************************)
(* Specifications                                                          *)
(***************************************************************************)
\* process_dataset on a history as HA returns it
InitResample == PdInit /\ LoopIdle /\ HaIdle /\ DbInit /\ SubIdle /\ SpIdle

\* process_dataset on any sequence of observations
InitResampleAny == PdInitAny /\ LoopIdle /\ HaIdle /\ DbInit /\ SubIdle /\ SpIdle

PdNext ==
    \/ PdEntry
    \/ PdEntryIndexError
    \/ PdEntryValueError
    \/ PdSkip
    \/ PdEmit
    \/ PdReturn

SpecResample == InitResample /\ [][PdNext]_vars

SpecResampleAny == InitResampleAny /\ [][PdNext]_vars

\* process_dataset on any sequence of observations, where, once called, it
\* keeps running: the event loop has no other task to run in its place
InitResampleWalk == PdInitWalk /\ LoopIdle /\ HaIdle /\ DbInit /\ SubIdle /\ SpIdle

SpecResampleFair == InitResampleWalk /\ [][PdNext]_vars /\ WF_vars(PdNext)

\* get_history with use_db, call after call, on a database that starts empty
InitStore == DbInit /\ LoopIdle /\ HaIdle /\ PdIdle /\ SubIdle /\ SpIdle

StoreNext ==
    \/ GhUseDb
    \/ CreateTable
    \/ GhLoad
    \/ StoreEntry
    \/ StoreRow
    \/ StoreCommit
    \/ GhReturn

SpecStore == InitStore /\ [][StoreNext]_vars

\* get_history with use_db where the process may die during a merge and be
\* started again
CrashNext ==
    \/ GhUseDb
    \/ CreateTable
    \/ GhLoad
    \/ StoreEntry
    \/ StoreRow
    \/ StoreCommit
    \/ GhReturn
    \/ Crash
    \/ Restart

SpecCrash == InitStore /\ [][CrashNext]_vars

\* store_history as such, on any arguments, and called once more
InitMerge == MergeInit /\ LoopIdle /\ HaIdle /\ PdIdle /\ SubIdle /\ SpIdle

MergeNext ==
    \/ StoreEntry
    \/ StoreRow
    \/ StoreCommit
    \/ StoreAgain

SpecMerge == InitMerge /\ [][MergeNext]_vars

\* subtract_set on any two series
InitSubtract == SubCall /\ LoopIdle /\ HaIdle /\ PdIdleLocals /\ DbInit /\ SpIdle

SubNext == SubRow \/ SubReturn

SpecSubtract == InitSubtract /\ [][SubNext]_vars

\* save_prediction on any forecast
InitPredict ==
    SpCall /\ dataset = <<>> /\ LoopIdle /\ HaIdle /\ PdIdleLocals /\ DbInit /\ SubIdle

SpNext == SpRow \/ SpPublish \/ SpPosted

SpecPredict == InitPredict /\ [][SpNext]_vars

\* main: every cycle, every sensor, each stage of its pipeline
InitMain == MainInit /\ HaIdle /\ PdIdle /\ DbInit /\ SubIdle /\ SpIdle

MainNext ==
    \/ MainLoadConfig
    \/ MainSkipSensor
    \/ MainStartSensor
    \/ MainSleep
    \/ HaRequest
    \/ HaResponse
    \/ PdEntry
    \/ PdEntryIndexError
    \/ PdEntryValueError
    \/ PdSkip
    \/ PdEmit
    \/ PdReturn
    \/ GhNoDb
    \/ GhUseDbOf
    \/ CreateTable
    \/ GhLoad
    \/ StoreEntry
    \/ StoreRow
    \/ StoreCommit
    \/ GhReturnMerged
    \/ MainGetSubtract
    \/ MainNoSubtract
    \/ MainSubtract
    \/ SubRow
    \/ SubReturn
    \/ MainSubtracted
    \/ MainTrain
    \/ SpRow
    \/ SpPublish
    \/ SpPosted
    \/ MainPublished
    \/ MainAbort

SpecMain == InitMain /\ [][MainNext]_vars

(***************************************************************************)
(* Claims about the Resampler                                              *)
(***************************************************************************)
\* the positions of the raw observations whose timestamp parses and, at the
\* minute precision of a sample, is at or before instant t
AtOrBefore(t) ==
    {i \in 1..Len(new_data) :
        /\ new_data[i].last_updated.ok
        /\ timestr_to_datetime(new_data[i].last_updated).t <= t}

\* the latest of them: the greatest timestamp, the last position among equals
InEffect(t) ==
    CHOOSE i \in AtOrBefore(t) :
        \A j \in AtOrBefore(t) :
            \/ new_data[j].last_updated.t < new_data[i].last_updated.t
            \/ /\ new_data[j].last_updated.t = new_data[i].last_updated.t
               /\ j <= i

\* a history in which every state is a number and every timestamp parses
CleanHistory ==
    \A i \in 1..Len(new_data) :
        new_data[i].state.ok /\ new_data[i].last_updated.ok

\* C1: in non-counter mode every emitted sample (t, y) carries the value in
\* effect at t, the value of the latest raw observation whose timestamp is at
\* or before t (the spec's example: the sample at 08:30 is the 08:20 value).
\* Stated for clean histories, where no carry-forward is involved.
C1_ValueInEffect ==
    (pd_pc = "done" /\ ~incrementing /\ CleanHistory) =>
        \A k \in 1..Len(dataset) :
            (AtOrBefore(dataset[k].ds) # {}
                /\ new_data[InEffect(dataset[k].ds)].state.ok)
            => dataset[k].y = new_data[InEffect(dataset[k].ds)].state.num

\* C2: grid regularity: the first sample's ds is start with its seconds
\* dropped, and consecutive samples' ds differ by exactly the interval.
C2_GridRegularity ==
    /\ Len(dataset) >= 1 => dataset[1].ds = 60 * (start \div 60)
    /\ \A k \in 1..(Len(dataset) - 1) :
           dataset[k + 1].ds - dataset[k].ds = 60 * period

\* a finished resample of three or more samples from a start that had seconds
C2_Witness ==
    pd_pc = "done" /\ Len(dataset) >= 3 /\ start % 60 # 0

\* C9: process_dataset never raises, in counter mode or not, and an empty
\* history yields an empty series.
C9_NeverAborts ==
    /\ pd_pc # "raised"
    /\ pd_exc = "none"
    /\ (pd_pc = "done" /\ Len(new_data) = 0) => dataset = <<>>

\* the positions before the cursor whose state parsed as a number
ParsedBefore(i) == {j \in 1..i : new_data[j].state.ok}

LastParsedBefore(i) == CHOOSE j \in ParsedBefore(i) : \A m \in ParsedBefore(i) : m <= j

\* C10: when the state of the observation under the cursor fails to parse,
\* the value used in its place is the last successfully parsed value of any
\* earlier observation, emitted at a grid point or not.  Stated for histories
\* whose timestamps all parse.
C10_CarryForwardLastParsed ==
    [][(/\ pd_pc = "loop"
        /\ \A i \in 1..Len(new_data) : new_data[i].last_updated.ok
        /\ PdLoopCond
        /\ ~PdObs.state.ok
        /\ ParsedBefore(data_index) # {})
       => value' = new_data[LastParsedBefore(data_index)].state.num]_vars


\* C16: the grid walk terminates: every pass of the loop of line 116 either
\* moves the raw cursor on by one or moves the grid time forward, the loop is
\* left only when the grid time has reached end or the observations are
\* exhausted, and process_dataset comes to its end, whatever the number of
\* observations in a row whose timestamp does not parse.
C16_GridWalkTerminates ==
    /\ [][(pd_pc = "loop" /\ pd_pc' = "loop") =>
              \/ data_index' = data_index + 1 /\ timenow' = timenow
              \/ data_index' = data_index /\ timenow' > timenow]_vars
    /\ [](pd_pc = "done" => (timenow >= end_time \/ data_index >= Len(new_data)))
    /\ <>(pd_pc \in {"done", "raised"})

\* a walk that has ended by exhausting a history in which two observations in
\* a row had no parseable timestamp, after emitting a sample
C16_Witness ==
    /\ pd_pc = "done"
    /\ data_index = Len(new_data)
    /\ Len(dataset) >= 1
    /\ \E i \in 1..(Len(new_data) - 1) :
           ~new_data[i].last_updated.ok /\ ~new_data[i + 1].last_updated.ok

(***************************************************************************)
(* Claims about the HistoryStore                                           *)
(***************************************************************************)
\* load(id): what Database.get_history returns for the committed table
Loaded == DbGetHistory(disk[table_name])

\* C3: merge completeness: once get_history's merge has completed, load(id)
\* has a row for every ds of the new series and of the prior series, and no
\* ds in two rows.
C3_MergeComplete ==
    db_pc = "merged" =>
        /\ \A k \in 1..Len(history) :
               \E m \in 1..Len(Loaded) : Loaded[m].ds = TimestampText(history[k].ds)
        /\ \A k \in 1..Len(prev_values) :
               \E m \in 1..Len(Loaded) : Loaded[m].ds = prev_values[k]
        /\ \A m \in 1..Len(Loaded) : \A n \in 1..Len(Loaded) :
               Loaded[m].ds = Loaded[n].ds => m = n

\* a second merge into a table that had rows, which added some rows of the
\* new series and skipped others
C3_Witness ==
    /\ db_pc = "merged"
    /\ calls = 2
    /\ Len(prev_values) >= 1
    /\ added_rows >= 1
    /\ added_rows < Len(history)

\* C4: merge idempotence: when store_history is called a second time with the
\* same new series and the series the first call returned, the stored rows
\* stay as they are, nothing is inserted and nothing is raised.
C4_MergeIdempotent ==
    [][calls >= 2 =>
          /\ disk' = disk
          /\ txn' = {}
          /\ db_exc' = "none"
          /\ db_pc' = "merged" => added_rows' = 0]_vars

\* the second merge has completed after a first one that inserted rows
C4_Witness ==
    /\ calls = 2
    /\ db_pc = "merged"
    /\ Len(printed) = 2
    /\ printed[1] >= 1
    /\ Len(history) >= 2

\* C5: a duplicate timestamp on merge is never an error: for any stored
\* content, any new series and any prev, store_history raises nothing and
\* leaves no timestamp in two rows.
C5_DuplicateNeverAnError ==
    /\ db_exc = "none"
    /\ \A r \in VisibleRows : \A q \in VisibleRows :
           r.timestamp = q.timestamp => r = q

(***************************************************************************)
(* Claims about SeriesArithmetic                                           *)
(***************************************************************************)
\* the floor of counter mode
Floored(x) == IF incrementing /\ x < 0 THEN 0 ELSE x

\* C6: subtract_set aligns by equal ds: the output has the minuend's length
\* and ds sequence; each value is the minuend's y minus the subtrahend's y at
\* the equal ds, or minus 0 where the subtrahend has no such ds, floored at 0
\* in counter mode; subtracting the empty series in non-counter mode returns
\* the minuend.
C6_SubtractAlignsByDs ==
    sub_pc = "done" =>
        /\ Len(pruned) = Len(dataset)
        /\ \A k \in 1..Len(dataset) :
               /\ pruned[k].ds = dataset[k].ds
               /\ IF \E j \in 1..Len(subset) : subset[j].ds = dataset[k].ds
                  THEN \E j \in 1..Len(subset) :
                           /\ subset[j].ds = dataset[k].ds
                           /\ pruned[k].y = Floored(dataset[k].y - subset[j].y)
                  ELSE pruned[k].y = Floored(dataset[k].y)
        /\ (subset = <<>> /\ ~incrementing) => pruned = dataset

\* a finished subtraction in which one minuend point has a match at another
\* position of the subtrahend and one has none
C6_Witness ==
    /\ sub_pc = "done"
    /\ Len(dataset) >= 2
    /\ Len(subset) >= 1
    /\ \E k \in 1..Len(dataset) : \E j \in 1..Len(subset) :
           subset[j].ds = dataset[k].ds /\ j # k
    /\ \E k \in 1..Len(dataset) : \A j \in 1..Len(subset) :
           subset[j].ds # dataset[k].ds

(***************************************************************************)
(* Claims about the ForecastPostProcessor                                  *)
(***************************************************************************)
RECURSIVE SumYhat(_, _)
\* the sum of the predicted values of rows from..to of the forecast
SumYhat(from, to) ==
    IF from > to THEN 0 ELSE pred[to].yhat1 + SumYhat(from, to - 1)

\* row m of the forecast is a midnight at or before now
MidnightNotAfterNow(m) ==
    /\ pred[m].ds % 86400 = 0
    /\ pred[m].ds <= now

\* C7: daily reset boundary: with reset_daily and counter mode, the published
\* map value at a 00:00 point at or before now is that point's predicted
\* value alone, and each later point (up to the next such midnight) carries
\* the sum of the predicted values from that 00:00 point up to itself.
C7_DailyResetBoundary ==
    (sp_pc = "done" /\ reset_daily /\ incrementing) =>
        \A m \in 1..Len(pred) :
            MidnightNotAfterNow(m) =>
                /\ published.results[StrfTime(pred[m].ds)] = Round2(pred[m].yhat1)
                /\ \A k \in (m + 1)..Len(pred) :
                       (\A j \in (m + 1)..k : ~MidnightNotAfterNow(j)) =>
                           published.results[StrfTime(pred[k].ds)]
                               = Round2(SumYhat(m, k))

\* a published forecast that crosses exactly one midnight, at or before now,
\* with points before it and after it
C7_Witness ==
    /\ sp_pc = "done"
    /\ reset_daily
    /\ incrementing
    /\ Len(pred) >= 3
    /\ MidnightNotAfterNow(2)
    /\ \A j \in 1..Len(pred) : pred[j].ds % 86400 = 0 => j = 2
    /\ Round2(SumYhat(1, 2)) # Round2(pred[2].yhat1)

\* C8: no point later than now resets the running totals: at such a point
\* total grows by the predicted value and total_org by the observed value
\* (by nothing when that is NaN), whatever reset_daily and the hour.
C8_NoResetAfterNow ==
    [][(/\ sp_pc = "rows"
        /\ pred_index < Len(pred)
        /\ pred[pred_index + 1].ds > now
        /\ pred_index' = pred_index + 1)
       => /\ total' = total + pred[pred_index + 1].yhat1
          /\ total_org' = total_org
                 + (IF pred[pred_index + 1].y.nan THEN 0
                    ELSE pred[pred_index + 1].y.num)]_vars

\* with reset_daily, two midnights later than now have been passed with a
\* total that was not zero
C8_Witness ==
    /\ reset_daily
    /\ pred_index >= 3
    /\ pred[2].ds > now /\ pred[2].ds % 86400 = 0
    /\ pred[3].ds > now /\ pred[3].ds % 86400 = 0
    /\ pred[1].yhat1 # 0
    /\ total = SumYhat(1, pred_index)

(***************************************************************************)
(* Claims about the pipeline as main runs it                               *)
(***************************************************************************)
\* the raw history under process_dataset has a value that falls
FallingRaw ==
    \E i \in 1..(Len(new_data) - 1) :
        /\ new_data[i].state.ok
        /\ new_data[i + 1].state.ok
        /\ new_data[i + 1].state.num < new_data[i].state.num

\* C11: counter non-negativity: in counter mode every sample the Resampler
\* (process_dataset) emits and every sample subtract_set emits has y >= 0,
\* also for raw values that fall and for a subtrahend above the minuend.
C11_CounterNonNegative ==
    incrementing =>
        /\ main_pc = "resample" => \A k \in 1..Len(dataset) : dataset[k].y >= 0
        /\ main_pc = "subtract" => \A k \in 1..Len(pruned) : pruned[k].y >= 0

\* counter mode: a subtrahend resampled from a raw value that fell, and
\* subtracted at a ds where it is above the minuend
C11_Witness ==
    /\ incrementing
    /\ main_pc = "subtract"
    /\ sub_pc = "done"
    /\ FallingRaw
    /\ Len(subset) >= 3
    /\ \E k \in 1..Len(dataset) :
           /\ dataset[k].y < CarValue(subset, dataset[k].ds)
           /\ pruned[k].y = 0

\* C12: a failed run for one sensor does not block the others: when the
\* processing of a sensor has raised an error, main is still running, to
\* take the remaining sensors of the cycle and the later cycles.
C12_FailureDoesNotBlock ==
    (pd_exc # "none" \/ db_exc # "none") => main_pc # "exited"

\* the place of a step in the order fetch, resample, merge, subtract,
\* forecast, publish
Rank(step) ==
    CASE step = "fetch" -> 1
      [] step = "resample" -> 2
      [] step = "merge" -> 3
      [] step = "subtract" -> 4
      [] step = "forecast" -> 5
      [] step = "publish" -> 6
      [] OTHER -> 0

\* C15: sensor pipelines never interleave: the steps of a sensor run in the
\* order fetch, resample, merge, subtract, forecast, publish; a pipeline
\* begins with fetch and, unless the process ends, is left only when its
\* publish has completed, and only then is another sensor taken; at most one
\* call to the hub is in flight.
C15_NoInterleaving ==
    [][/\ in_flight <= 1 /\ in_flight' <= 1
       /\ (Stage # "none" /\ Stage' # "none") =>
              /\ sensor_idx' = sensor_idx
              /\ cycle' = cycle
              /\ Rank(Stage') >= Rank(Stage)
       /\ (Stage = "none" /\ Stage' # "none") => Stage' = "fetch"
       /\ (Stage # "none" /\ Stage' = "none") =>
              \/ main_pc' = "exited"
              \/ Stage = "publish" /\ sp_pc = "done" /\ in_flight = 0
       /\ (sensor_idx' # sensor_idx \/ cycle' # cycle) => Stage = "none"]_vars

\* the second cycle's second sensor, with a subtrahend and the database, has
\* published
C15_Witness ==
    /\ cycle = 2
    /\ sensor_idx = 2
    /\ ThisSensor.subtract # NoName
    /\ ThisSensor.database
    /\ main_pc = "publish"
    /\ sp_pc = "done"
    /\ published.sent

(***************************************************************************)
(* Further claims about the HistoryStore                                   *)
(***************************************************************************)
\* C13: the stored series is append-only: whatever create_table, get_history
\* and store_history do, every table stays, keeps each of its rows, and the
\* value stored for a ds does not change.
C13_AppendOnly ==
    [][\A t \in DOMAIN disk :
           /\ t \in DOMAIN disk'
           /\ disk[t] \subseteq disk'[t]
           /\ \A r \in disk[t] : \A q \in disk'[t] :
                  q.timestamp = r.timestamp => q.value = r.value]_vars

\* a second merge into a table that held one row, adding two more
C13_Witness ==
    /\ db_pc = "merged"
    /\ calls = 2
    /\ printed = <<1, 2>>
    /\ Cardinality(disk[table_name]) = 3

\* the rows of the table when the merge began: the prior series, which the
\* merge keeps as the head of prev
PreMerge ==
    {[timestamp |-> prev[k].ds, value |-> prev[k].y] : k \in 1..Len(prev_values)}

\* the rows the merge would append, in the order it meets them
WouldAppend ==
    LET fresh == SelectSeq(history,
                     LAMBDA r : ~InList(TimestampText(r.ds), prev_values))
    IN  [k \in 1..Len(fresh) |->
            [timestamp |-> TimestampText(fresh[k].ds), value |-> fresh[k].y]]

\* C14: crash atomicity of merge: when the process has died during
\* store_history, the table holds exactly the rows it held before the merge
\* and a prefix (empty, partial or whole) of the rows the merge would have
\* appended, each as it would have been written.
C14_CrashAtomic ==
    db_pc = "crashed" =>
        \E n \in 0..Len(WouldAppend) :
            disk[table_name] = PreMerge \cup {WouldAppend[k] : k \in 1..n}

\* the process died after the merge had INSERTed a row into a table that
\* held rows, and the row is not in the file
C14_Witness ==
    /\ db_pc = "crashed"
    /\ Len(prev_values) >= 1
    /\ added_rows >= 1
    /\ hist_index >= 2
    /\ disk[table_name] = PreMerge

\* C17: with the database in use, the series get_history returns (what
\* store_history returned: prev with the new rows appended) has strictly
\* increasing ds, whatever the table held and whatever the new series.
C17_ReturnedSeriesIncreasing ==
    db_pc = "merged" =>
        \A k \in 1..(Len(prev) - 1) : TextLess(prev[k].ds, prev[k + 1].ds)

\* C18: the stored series of distinct sensors are independent: no table has
\* given rows to, or taken rows from, the get_history of two sensor names.
C18_IndependentKeyspaces ==
    \A u \in used_by : \A v \in used_by : u[1] = v[1] => u[2] = v[2]

(***************************************************************************)
(* Further claims about the ForecastPostProcessor                          *)
(***************************************************************************)
\* no point of the forecast resets the totals
NoResetTakesPlace ==
    ~reset_daily \/ \A m \in 1..Len(pred) : ~MidnightNotAfterNow(m)

\* C19: in save_prediction with counter mode and no reset taking place, the
\* map value at each point is the sum of the predicted values of the points up
\* to and including it, and the final value is the last such total; without
\* counter mode each map value is the point's own predicted value and the
\* final value that of the last point (all rounded to two decimals).
C19_RunningSumAndFinal ==
    sp_pc = "done" =>
        /\ (incrementing /\ NoResetTakesPlace) =>
               /\ \A k \in 1..Len(pred) :
                      published.results[StrfTime(pred[k].ds)] = Round2(SumYhat(1, k))
               /\ published.state = Round2(SumYhat(1, Len(pred)))
        /\ ~incrementing =>
               /\ \A k \in 1..Len(pred) :
                      published.results[StrfTime(pred[k].ds)] = Round2(pred[k].yhat1)
               /\ published.state = Round2(pred[Len(pred)].yhat1)

\* counter mode without reset, three points whose running total rises and
\* falls, published
C19_Witness ==
    /\ sp_pc = "done"
    /\ incrementing
    /\ ~reset_daily
    /\ Len(pred) = 3
    /\ pred[1].yhat1 = 12 /\ pred[2].yhat1 = -6 /\ pred[3].yhat1 = 4
    /\ published.sent
    /\ published.state = Round2(10)
====
